---- MODULE Spec2Model ----
(***************************************************************************)
(* man-to-anki: one run of main() (src/man-to-anki.py) against the         *)
(* AnkiConnect client (src/ankiconnect.py).                                *)
(*                                                                         *)
(* Text is a sequence of characters, each character a one-symbol string;   *)
(* the characters that are not ASCII carry a name ("EMDASH", "ACIRC",      *)
(* "EURO", "RDQUO", "TAB", "NL").  A parsed document is a tree of nodes,   *)
(* each [tag, string, contents]: a text node has tag "#text" and its text  *)
(* in string, an element has its children in contents.                     *)
(***************************************************************************)
EXTENDS Integers, Sequences, FiniteSets, TLC

VARIABLES
    pc,          \* position of the run in main(), or of the function harness
    args,        \* the argparse.Namespace of get_args()
    command,     \* main: command, subcommand of page.split("-", 1)
    html_file,   \* TRUE once create_man_html_file has opened the html file for writing
    soup,        \* main: soup, the parsed document (top-level nodes in document order)
    note_ids,    \* main: note_ids
    requests,    \* every request posted to AnkiConnect, in order
    responses,   \* the response (or the failure to connect) to each request, in order
    prompts,     \* every input() prompt shown, with the line the operator entered
    front,       \* main: the value of get_one_liner(soup)
    info,        \* main: title, description of get_option_info(soup, option)
    opt_i,       \* main: index of the current element of args.option
    failure,     \* the uncaught exception that ended the run, if any
    exit_status, \* the process exit status once the run has ended, else -1
    call,        \* function harness: the inputs and the outcome of the call made
    noted        \* what each addNote request was posted for, in order

vars == <<pc, args, command, html_file, soup, note_ids, requests, responses,
          prompts, front, info, opt_i, failure, exit_status, call, noted>>

(***************************************************************************)
(* Bounds of the model.                                                    *)
(***************************************************************************)
MaxSection == 10
MaxOptions == 2
MaxNodes == 3

(***************************************************************************)
(* Text.                                                                   *)
(* A text is a sequence of characters.  A character outside ASCII has a    *)
(* name: "ACIRC" is U+00E2, "CAP_ACIRC" U+00C2, "EURO" U+20AC, "RDQUO"     *)
(* U+201D, "EMDASH" U+2014; "TAB" and "NL" are the tab and the newline.    *)
(***************************************************************************)
Lower == <<"a","b","c","d","e","f","g","h","i","j","k","l","m",
           "n","o","p","q","r","s","t","u","v","w","x","y","z","ACIRC">>
UpperCase == <<"A","B","C","D","E","F","G","H","I","J","K","L","M",
               "N","O","P","Q","R","S","T","U","V","W","X","Y","Z","CAP_ACIRC">>
Digits == <<"0","1","2","3","4","5","6","7","8","9">>

\* str.upper() of one character: a lowercase letter, ASCII or not, becomes
\* its capital; every other character of the model's alphabet has no case
upper(c) ==
    IF \E k \in 1..Len(Lower) : Lower[k] = c
    THEN UpperCase[CHOOSE k \in 1..Len(Lower) : Lower[k] = c]
    ELSE c

\* str(None)
NoneStr == <<"N","o","n","e">>

\* Python None where a text is expected: a sequence that is no text
PyNone == <<"<NoneType>">>

RECURSIVE Concat(_)
\* "".join(seq_of_texts)
Concat(ss) == IF ss = <<>> THEN <<>> ELSE Head(ss) \o Concat(Tail(ss))

RECURSIVE Join(_, _)
\* sep.join(seq_of_texts)
Join(sep, ss) ==
    IF ss = <<>> THEN <<>>
    ELSE IF Len(ss) = 1 THEN ss[1]
    ELSE ss[1] \o sep \o Join(sep, Tail(ss))

RECURSIVE IntStr(_)
\* str(n) of a non-negative int
IntStr(n) ==
    IF n < 10 THEN <<Digits[n + 1]>>
    ELSE IntStr(n \div 10) \o <<Digits[(n % 10) + 1]>>

\* first_letter_capitalize: string[0].upper() + string[1:]
\* (string[0] of an empty string raises IndexError; every caller passes a
\* non-empty string)
first_letter_capitalize(string) == <<upper(string[1])>> \o Tail(string)

(***************************************************************************)
(* The parsed document (bs4).                                              *)
(***************************************************************************)
Txt(s) == [tag |-> "#text", string |-> s, contents |-> <<>>]
El(tag, contents) == [tag |-> tag, string |-> <<>>, contents |-> contents]

\* find() that found nothing
NoTag == [tag |-> "#none", string |-> <<>>, contents |-> <<>>]

TagName(tag) ==
    CASE tag = "p" -> <<"p">>
      [] tag = "dt" -> <<"d","t">>
      [] tag = "dd" -> <<"d","d">>
      [] tag = "em" -> <<"e","m">>
      [] tag = "strong" -> <<"s","t","r","o","n","g">>

RECURSIVE Descendants(_)
\* the nodes below a list of siblings, in document order
Descendants(nodes) ==
    IF nodes = <<>> THEN <<>>
    ELSE <<Head(nodes)>> \o Descendants(Head(nodes).contents)
             \o Descendants(Tail(nodes))

\* tag.find_all(name): every descendant element of that name, in document order
find_all(contents, name) ==
    SelectSeq(Descendants(contents), LAMBDA n : n.tag = name)

\* tag.find(name): the first of them, or None
find(contents, name) ==
    IF find_all(contents, name) = <<>> THEN NoTag
    ELSE find_all(contents, name)[1]

RECURSIVE NodeString(_)
\* tag.string: the text of a text node; of an element with exactly one
\* child, that child's .string; otherwise None
NodeString(n) ==
    IF n.tag = "#text" THEN n.string
    ELSE IF Len(n.contents) = 1 THEN NodeString(n.contents[1])
    ELSE PyNone

\* str(x) of a text or None
str(x) == IF x = PyNone THEN NoneStr ELSE x

\* the entities the output formatter writes for &, < and >
Entity(c) ==
    CASE c = "&" -> <<"&", "a", "m", "p", ";">>
      [] c = "<" -> <<"&", "l", "t", ";">>
      [] c = ">" -> <<"&", "g", "t", ";">>
      [] OTHER -> <<c>>

\* text as an element writes it out
Escaped(s) == Concat([k \in 1..Len(s) |-> Entity(s[k])])

RECURSIVE decode(_)
\* str(tag): the tags of an element around its children, the text below it
\* written with entities
decode(n) ==
    IF n.tag = "#text" THEN Escaped(n.string)
    ELSE <<"<">> \o TagName(n.tag) \o <<">">>
         \o Concat([k \in 1..Len(n.contents) |-> decode(n.contents[k])])
         \o <<"<", "/">> \o TagName(n.tag) \o <<">">>

\* str(node): a text node is its text as it is, an element is written out
Markup(n) == IF n.tag = "#text" THEN n.string ELSE decode(n)

\* "".join(map(str, tag.contents))
ContentsMarkup(n) == Concat([k \in 1..Len(n.contents) |-> Markup(n.contents[k])])

(***************************************************************************)
(* Prompts: input(...) blocks until the operator enters a line, which may  *)
(* be empty.                                                               *)
(***************************************************************************)
Answers == {<<>>, <<"x", "y">>}

Asked(prompt, option, entered) ==
    [prompt |-> prompt, option |-> option, entered |-> entered]

\* what an extraction gives back: its value and the prompts it showed
Got(value, asked) == [value |-> value, asked |-> asked]

input_one_liner(entered) == Got(entered, <<Asked("one-liner", <<>>, entered)>>)

input_option_title(option, entered) ==
    Got(entered, <<Asked("option title", option, entered)>>)

input_option_description(option, entered) ==
    Got(entered, <<Asked("option description", option, entered)>>)

(***************************************************************************)
(* get_one_liner.                                                          *)
(***************************************************************************)
\* \s
IsSpace(c) == c \in {" ", "TAB", "NL"}

\* the character class of the pattern, as the source file spells it
SepClass == {"-", "ACIRC", "EURO", "RDQUO"}

\* .* : up to the end of the line
RECURSIVE RestOfLine(_)
RestOfLine(s) ==
    IF s = <<>> \/ Head(s) = "NL" THEN <<>>
    ELSE <<Head(s)>> \o RestOfLine(Tail(s))

SepAt(s, i) ==
    /\ i + 2 <= Len(s)
    /\ IsSpace(s[i])
    /\ s[i + 1] \in SepClass
    /\ IsSpace(s[i + 2])

\* regex.search(s): the leftmost match and its group 1
regex_search(s) ==
    IF \E i \in 1..Len(s) : SepAt(s, i)
    THEN LET i == CHOOSE i \in 1..Len(s) :
                      SepAt(s, i) /\ \A j \in 1..(i - 1) : ~SepAt(s, j)
         IN [found |-> TRUE, group1 |-> RestOfLine(SubSeq(s, i + 3, Len(s)))]
    ELSE [found |-> FALSE, group1 |-> <<>>]

get_one_liner(parsed_html, entered) ==
    LET line == find(parsed_html, "p")
        match == regex_search(str(NodeString(line)))
    IN IF line = NoTag THEN input_one_liner(entered)
       ELSE IF match.found THEN Got(match.group1, <<>>)
       ELSE input_one_liner(entered)

(***************************************************************************)
(* get_option_info.  An element of the document is known by its place:     *)
(* the indexes that lead to it from the top of the document, the index     *)
(* among the top-level nodes first.  NoPlace stands for None.              *)
(***************************************************************************)
NoPlace == <<>>

RECURSIVE Places(_, _, _)
\* the places of the nodes from the k-th of a list of siblings on, and of
\* all the nodes below them, in document order; above is the place of the
\* siblings' parent
Places(nodes, above, k) ==
    IF k > Len(nodes) THEN <<>>
    ELSE <<Append(above, k)>>
         \o Places(nodes[k].contents, Append(above, k), 1)
         \o Places(nodes, above, k + 1)

RECURSIVE SiblingsAt(_, _)
\* the list of siblings the node at a place is in
SiblingsAt(nodes, place) ==
    IF Len(place) = 1 THEN nodes
    ELSE SiblingsAt(nodes[place[1]].contents, Tail(place))

\* the node at a place
NodeAt(nodes, place) == SiblingsAt(nodes, place)[place[Len(place)]]

\* some strong element below the term has the option as its .string
HasStrong(dt, option) ==
    \E k \in 1..Len(find_all(dt.contents, "strong")) :
        NodeString(find_all(dt.contents, "strong")[k]) = option

\* the terms of the document that match the option, in document order
MatchingTerms(parsed_html, option) ==
    SelectSeq(Places(parsed_html, NoPlace, 1),
              LAMBDA q : /\ NodeAt(parsed_html, q).tag = "dt"
                         /\ HasStrong(NodeAt(parsed_html, q), option))

\* get_option_dt returning the last term that matches
get_option_dt_last(parsed_html, option) ==
    LET dts == MatchingTerms(parsed_html, option)
    IN IF dts = <<>> THEN NoPlace ELSE dts[Len(dts)]

\* the place of the first dt of the document, at any depth, that matches
get_option_dt(parsed_html, option) ==
    LET dts == MatchingTerms(parsed_html, option)
    IN IF dts = <<>> THEN NoPlace ELSE dts[1]

get_option_title(parsed_html, dt, option, entered) ==
    LET title == ContentsMarkup(NodeAt(parsed_html, dt))
    IN IF title = <<>> THEN input_option_title(option, entered)
       ELSE Got(title, <<>>)

\* dt.find_next_sibling("dd"): the place of the first dd among the nodes
\* that follow the term under the term's parent
find_next_sibling_dd(parsed_html, dt) ==
    LET siblings == SiblingsAt(parsed_html, dt)
        i == dt[Len(dt)]
        is_dd(j) == siblings[j].tag = "dd"
    IN IF \E j \in (i + 1)..Len(siblings) : is_dd(j)
       THEN [dt EXCEPT ![Len(dt)] =
                CHOOSE j \in (i + 1)..Len(siblings) :
                    is_dd(j) /\ \A k \in (i + 1)..(j - 1) : ~is_dd(k)]
       ELSE NoPlace

get_option_description(parsed_html, dt, option, entered) ==
    LET dd == find_next_sibling_dd(parsed_html, dt)
        p == find(NodeAt(parsed_html, dd).contents, "p")
        description == ContentsMarkup(p)
    IN IF dd = NoPlace THEN input_option_description(option, entered)
       ELSE IF p = NoTag THEN input_option_description(option, entered)
       ELSE IF description = <<>> THEN input_option_description(option, entered)
       ELSE Got(first_letter_capitalize(description), <<>>)

\* the pair (title, description) and the prompts shown, in the order shown
get_option_info(parsed_html, option, entered_title, entered_description) ==
    LET dt == get_option_dt(parsed_html, option)
        t == IF dt = NoPlace THEN input_option_title(option, entered_title)
             ELSE get_option_title(parsed_html, dt, option, entered_title)
        d == IF dt = NoPlace
             THEN input_option_description(option, entered_description)
             ELSE get_option_description(parsed_html, dt, option, entered_description)
    IN [title |-> t.value, description |-> d.value, asked |-> t.asked \o d.asked]

(***************************************************************************)
(* The AnkiConnect client (src/ankiconnect.py).  A JSON value is           *)
(* [t, n, s]: null, an int n or a string s.  A response is                 *)
(* [transport, json, table]: whether the POST connected and with what      *)
(* HTTP status, whether the body is JSON, and the JSON object of the body. *)
(***************************************************************************)
JNull == [t |-> "null", n |-> 0, s |-> ""]
JInt(n) == [t |-> "int", n |-> n, s |-> ""]
JStr(s) == [t |-> "str", n |-> 0, s |-> s]

version == 6

get_anki_connect_request(action, params) ==
    [action |-> action, version |-> version, params |-> params]

Returned(value) ==
    [raised |-> FALSE, exc |-> "", arg |-> JNull, value |-> value]

Raised(exc, arg) ==
    [raised |-> TRUE, exc |-> exc, arg |-> arg, value |-> JNull]

\* invoke_anki_connect without its check of the number of fields
invoke_anki_connect_any_count(response) ==
    LET response_table == response.table
    IN IF response.transport = "unreachable"
       THEN Raised("ConnectionError", JNull)
       ELSE IF ~response.json
       THEN Raised("JSONDecodeError", JNull)
       ELSE IF "error" \notin DOMAIN response_table
       THEN Raised("Exception", JStr("response is missing required error field"))
       ELSE IF "result" \notin DOMAIN response_table
       THEN Raised("Exception", JStr("response is missing required result field"))
       ELSE IF response_table["error"] # JNull
       THEN Raised("Exception", response_table["error"])
       ELSE Returned(response_table["result"])

\* the outcome of invoke_anki_connect on the response to its request
invoke_anki_connect(response) ==
    LET response_table == response.table
    IN IF response.transport = "unreachable"
       THEN Raised("ConnectionError", JNull)
       ELSE IF ~response.json
       THEN Raised("JSONDecodeError", JNull)
       ELSE IF Cardinality(DOMAIN response_table) # 2
       THEN Raised("Exception", JStr("response has an unexpected number of fields"))
       ELSE IF "error" \notin DOMAIN response_table
       THEN Raised("Exception", JStr("response is missing required error field"))
       ELSE IF "result" \notin DOMAIN response_table
       THEN Raised("Exception", JStr("response is missing required result field"))
       ELSE IF response_table["error"] # JNull
       THEN Raised("Exception", response_table["error"])
       ELSE Returned(response_table["result"])

\* str(note_id) of a returned result
IdStr(v) ==
    CASE v.t = "int" -> IntStr(v.n)
      [] v.t = "null" -> NoneStr
      [] v.t = "str" -> <<v.s>>

(***************************************************************************)
(* config.json, read by get_config(): the keys main() uses.                *)
(***************************************************************************)
config ==
    [k \in {"deck", "tags-one-liner", "tags-option-description"} |->
        CASE k = "deck" -> <<"man">>
          [] k = "tags-one-liner" -> <<"man", "one-liner">>
          [] k = "tags-option-description" -> <<"man", "option">>]

\* config[template].format(**values)
Hint(template, values) == [template |-> template, values |-> values]

\* the request add_note posts
add_note(deck, front_, back, hint, links, tags) ==
    get_anki_connect_request("addNote",
        [note |-> [deckName |-> deck,
                   modelName |-> "Basic",
                   fields |-> [Front |-> front_, Back |-> back,
                               Hint |-> hint, Links |-> links],
                   tags |-> tags]])

\* gui_browse_notes with note_ids[1:] for note_ids
gui_browse_notes_from_second(ids) ==
    get_anki_connect_request("guiBrowse",
        [query |-> <<"n","i","d",":">>
                     \o Join(<<",">>, [k \in 1..(Len(ids) - 1) |-> IdStr(ids[k + 1])])])

\* the request gui_browse_notes posts
gui_browse_notes(ids) ==
    get_anki_connect_request("guiBrowse",
        [query |-> <<"n","i","d",":">>
                     \o Join(<<",">>, [k \in 1..Len(ids) |-> IdStr(ids[k])])])

(***************************************************************************)
(* Inputs: command lines, documents, responses.                            *)
(***************************************************************************)
\* "ls", "git-commit"
Page_ls == <<"l", "s">>
Page_git_commit == <<"g", "i", "t", "-", "c", "o", "m", "m", "i", "t">>
Pages == {Page_ls, Page_git_commit}

\* -o v, -o all
OptionNames == {<<"v">>, <<"a", "l", "l">>}
Flag_v == <<"-", "v">>
Flag_all == <<"-", "-", "a", "l", "l">>

\* args.option and args.tags when the flag is not given
NoOptions == <<PyNone>>
NoTags == PyNone

RECURSIVE SeqsUpTo(_, _)
\* the sequences over S of length at most n
SeqsUpTo(S, n) ==
    IF n = 0 THEN {<<>>}
    ELSE LET shorter == SeqsUpTo(S, n - 1)
         IN shorter \cup {Append(q, x) : q \in shorter, x \in S}

OptionLists == {NoOptions} \cup (SeqsUpTo(OptionNames, MaxOptions) \ {<<>>})
TagLists == {NoTags, <<"cli">>}

Argvs ==
    [page : Pages, section : 0..MaxSection, description : BOOLEAN,
     option : OptionLists, subcommand : BOOLEAN, tags : TagLists]

NoArgs ==
    [page |-> <<>>, section |-> 0, description |-> FALSE,
     option |-> NoOptions, subcommand |-> FALSE, tags |-> NoTags]

\* first paragraphs
P_ls_list == El("p", <<Txt(<<"l", "s", " ", "-", " ", "l", "i", "s", "t", " ", "d", "i", "r", "e", "c", "t", "o", "r", "y", " ", "c", "o", "n", "t", "e", "n", "t", "s">>)>>)
P_emdash == El("p", <<Txt(<<"g", "i", "t", "-", "c", "o", "m", "m", "i", "t", " ", "EMDASH", " ", "r", "e", "c", "o", "r", "d", " ", "c", "h", "a", "n", "g", "e", "s", " ", "t", "o", " ", "t", "h", "e", " ", "r", "e", "p", "o", "s", "i", "t", "o", "r", "y">>)>>)
P_no_rest == El("p", <<Txt(<<"l", "s", " ", "-", " ">>)>>)
P_no_sep == El("p", <<Txt(<<"l", "s", "-", "l">>)>>)
P_two_seps == El("p", <<Txt(<<"m", "v", " ", "-", " ", "m", "o", "v", "e", " ", "f", "i", "l", "e", "s", " ", "-", " ", "o", "r", " ", "r", "e", "n", "a", "m", "e", "TAB", "-", "TAB", "t", "h", "e", "m", "NL", "n", "o", "w">>)>>)
P_children == El("p", <<Txt(<<"l", "s", " ", "-", " ">>), El("em", <<Txt(<<"l", "i", "s", "t">>)>>)>>)

\* definition terms
Strong_v == El("strong", <<Txt(Flag_v)>>)
Strong_all == El("strong", <<Txt(Flag_all)>>)
Dt_v == El("dt", <<Strong_v>>)
Dt_v_all == El("dt", <<Strong_v, Txt(<<",", " ">>), Strong_all>>)
Dt_plain_v == El("dt", <<Txt(Flag_v)>>)
Dt_em_all == El("dt", <<El("em", <<Strong_all>>), Txt(<<" ", "n">>)>>)
Dt_long_v == El("dt", <<El("strong", <<Txt(Flag_v), El("em", <<>>)>>)>>)

\* definition descriptions
Dd_p == El("dd", <<El("p", <<Txt(<<"s", "h", "o", "w", " ", "a", "l", "l">>)>>)>>)
Dd_p_markup == El("dd", <<Txt(<<"NL">>), El("p", <<Txt(<<"ACIRC", " ", "&", " ">>), El("em", <<Txt(<<"<", "c", ">">>)>>)>>), El("p", <<Txt(<<"b">>)>>)>>)
Dd_empty_p == El("dd", <<El("p", <<>>)>>)
Dd_no_p == El("dd", <<Txt(<<"r", "a", "w">>)>>)

\* a definition list inside a description
Dd_nested == El("dd", <<Dt_v, Dd_p>>)

Paragraphs == {P_ls_list, P_emdash, P_no_rest, P_no_sep, P_two_seps, P_children}
Terms == {Dt_v, Dt_v_all, Dt_plain_v, Dt_em_all, Dt_long_v}
Descriptions == {Dd_p, Dd_p_markup, Dd_empty_p, Dd_no_p, Dd_nested}

\* the documents of the function harness: paragraphs, and definition lists
\* with or without a paragraph around them
Docs ==
    SeqsUpTo(Paragraphs, MaxNodes)
    \cup SeqsUpTo(Terms \cup Descriptions \cup {P_ls_list}, MaxNodes)

\* the documents of a run
RunDocs ==
    {<<P_ls_list, Dt_v_all, Dd_p>>, <<P_no_rest, Dt_v_all, Dd_p>>, <<Dt_v_all>>}

\* before the document is parsed
NoDoc == <<NoTag>>

JValues == {JNull, JInt(7), JInt(12345), JStr("deck not found")}

\* the JSON objects over the fields error, result and one more
Tables ==
    UNION {[D -> JValues] : D \in SUBSET {"error", "result", "extra"}}

NoTable == [k \in {} |-> JNull]

Responses ==
    {[transport |-> "unreachable", json |-> FALSE, table |-> NoTable]}
    \cup [transport : {"ok", "http_error"}, json : {FALSE}, table : {NoTable}]
    \cup [transport : {"ok", "http_error"}, json : {TRUE}, table : Tables]

\* the identifier the note store gives the note of the k-th request of a run
StoreId(k) == JInt(5 * k + 2)

\* the responses to the k-th request of a run
RunResponses(k) ==
    {[transport |-> "ok", json |-> TRUE,
      table |-> [error |-> JNull, result |-> StoreId(k)]],
     [transport |-> "http_error", json |-> TRUE,
      table |-> [error |-> JNull, result |-> StoreId(k)]],
     [transport |-> "ok", json |-> TRUE,
      table |-> [error |-> JStr("deck not found"), result |-> JNull]],
     [transport |-> "ok", json |-> TRUE,
      table |-> [error |-> JNull, result |-> StoreId(k), extra |-> JNull]]}

(***************************************************************************)
(* The run of main().                                                      *)
(***************************************************************************)
NoFailure == [exc |-> "", arg |-> JNull]
NoInfo == [title |-> <<>>, description |-> <<>>]
NoCall == [fn |-> "", option |-> <<>>, out |-> Returned(JNull)]

Idle ==
    /\ args = NoArgs
    /\ command = <<>>
    /\ html_file = FALSE
    /\ note_ids = <<>>
    /\ requests = <<>>
    /\ responses = <<>>
    /\ prompts = <<>>
    /\ front = <<>>
    /\ info = NoInfo
    /\ opt_i = 1
    /\ failure = NoFailure
    /\ exit_status = -1
    /\ call = NoCall
    /\ noted = <<>>

Init ==
    /\ pc = "get_args"
    /\ soup = NoDoc
    /\ Idle

\* an uncaught exception: the traceback is printed and the exit status is 1
Crash(exc, arg) ==
    /\ pc' = "crashed"
    /\ failure' = [exc |-> exc, arg |-> arg]
    /\ exit_status' = 1

\* choices=range(1, 9)
section_choices == 1..8

\* get_args: parser.parse_args() prints the usage and exits with status 2
\* when section is not among the choices.  args keeps the command line.
GetArgs ==
    /\ pc = "get_args"
    /\ \E argv \in Argvs :
        /\ args' = argv
        /\ IF argv.section \in section_choices
           THEN pc' = "create_man_html_file" /\ exit_status' = exit_status
           ELSE pc' = "exited" /\ exit_status' = 2
    /\ UNCHANGED <<command, html_file, soup, note_ids, requests, responses,
                   prompts, front, info, opt_i, failure, call, noted>>

\* create_man_html_file opening the html file before it runs man --path
CreateManHtmlFile_opens_first ==
    /\ pc = "create_man_html_file"
    /\ html_file' = TRUE
    /\ \E outcome \in {"man failed", "gzip failed", "pandoc failed", "ok"} :
        CASE outcome = "man failed" -> Crash("CalledProcessError", JStr("man"))
          [] outcome = "gzip failed" -> Crash("OSError", JStr("gzip"))
          [] outcome = "pandoc failed" -> Crash("CalledProcessError", JStr("pandoc"))
          [] outcome = "ok" -> pc' = "split" /\ UNCHANGED <<failure, exit_status>>
    /\ UNCHANGED <<args, command, soup, note_ids, requests, responses,
                   prompts, front, info, opt_i, call, noted>>

\* create_man_html_file: man --path, gzip.open, then the html file is opened
\* for writing and pandoc run into it
CreateManHtmlFile ==
    /\ pc = "create_man_html_file"
    /\ \E outcome \in {"man failed", "gzip failed", "pandoc failed", "ok"} :
        CASE outcome = "man failed" ->
                Crash("CalledProcessError", JStr("man")) /\ html_file' = html_file
          [] outcome = "gzip failed" ->
                Crash("OSError", JStr("gzip")) /\ html_file' = html_file
          [] outcome = "pandoc failed" ->
                Crash("CalledProcessError", JStr("pandoc")) /\ html_file' = TRUE
          [] outcome = "ok" ->
                /\ html_file' = TRUE
                /\ pc' = "split"
                /\ UNCHANGED <<failure, exit_status>>
    /\ UNCHANGED <<args, command, soup, note_ids, requests, responses,
                   prompts, front, info, opt_i, call, noted>>

\* page.split("-", 1)
split_1(s) ==
    IF \E i \in 1..Len(s) : s[i] = "-"
    THEN LET i == CHOOSE i \in 1..Len(s) :
                      s[i] = "-" /\ \A j \in 1..(i - 1) : s[j] # "-"
         IN <<SubSeq(s, 1, i - 1), SubSeq(s, i + 1, Len(s))>>
    ELSE <<s>>

\* main, lines 211-213: command, subcommand = page.split("-", 1)
SplitPage ==
    /\ pc = "split"
    /\ IF ~args.subcommand
       THEN pc' = "read_html" /\ UNCHANGED <<command, failure, exit_status>>
       ELSE IF Len(split_1(args.page)) # 2
       THEN Crash("ValueError", JStr("not enough values to unpack"))
            /\ command' = command
       ELSE /\ command' = split_1(args.page)
            /\ pc' = "read_html"
            /\ UNCHANGED <<failure, exit_status>>
    /\ UNCHANGED <<args, html_file, soup, note_ids, requests, responses,
                   prompts, front, info, opt_i, call, noted>>

\* where main goes once the one-liner and the first i - 1 options are done
LoopPc(i) ==
    IF args.option # NoOptions /\ i <= Len(args.option)
    THEN "get_option_info"
    ELSE "gui_browse"

\* main, lines 215-221: the html file is parsed
ReadHtml ==
    /\ pc = "read_html"
    /\ \E doc \in RunDocs : soup' = doc
    /\ pc' = IF args.description THEN "get_one_liner" ELSE LoopPc(1)
    /\ UNCHANGED <<args, command, html_file, note_ids, requests, responses,
                   prompts, front, info, opt_i, failure, exit_status, call, noted>>

\* main, line 230: front=get_one_liner(soup), evaluated before tags=
GetOneLiner ==
    /\ pc = "get_one_liner"
    /\ \E entered \in Answers :
        LET got == get_one_liner(soup, entered)
        IN /\ front' = got.value
           /\ prompts' = prompts \o got.asked
    /\ pc' = "add_one_liner"
    /\ UNCHANGED <<args, command, html_file, soup, note_ids, requests,
                   responses, info, opt_i, failure, exit_status, call, noted>>

\* f"_man-{section}-{page}.html" and the link to it
html_filename ==
    <<"_", "m", "a", "n", "-">> \o IntStr(args.section) \o <<"-">>
        \o args.page \o <<".", "h", "t", "m", "l">>
link == [href |-> html_filename, title |-> html_filename]

\* list + list, None for the TypeError of list + None
ListPlus(a, b) == IF b = NoTags THEN PyNone ELSE a \o b

\* main, lines 242-245
normalize(option) ==
    IF Len(option) = 1 THEN <<"-">> \o option ELSE <<"-", "-">> \o option

\* what the one-liner note is noted for (an option note: for its flag)
OneLiner == <<"one-liner">>

\* PostAddNote reporting the exception of invoke_anki_connect and going on
PostAddNote_goes_on(request, response, next) ==
    LET out == invoke_anki_connect(response)
    IN /\ requests' = Append(requests, request)
       /\ noted' = Append(noted, IF next = 1 THEN OneLiner
                                 ELSE normalize(args.option[next - 1]))
       /\ responses' = Append(responses, response)
       /\ pc' = LoopPc(next)
       /\ opt_i' = next
       /\ exit_status' = exit_status
       /\ IF out.raised
          THEN failure' = [exc |-> out.exc, arg |-> out.arg] /\ note_ids' = note_ids
          ELSE failure' = failure /\ note_ids' = Append(note_ids, out.value)

\* the request is posted and the response to it handled by invoke_anki_connect;
\* a note id returned is appended to note_ids
PostAddNote(request, response, next) ==
    LET out == invoke_anki_connect(response)
    IN /\ requests' = Append(requests, request)
       /\ noted' = Append(noted, IF next = 1 THEN OneLiner
                                 ELSE normalize(args.option[next - 1]))
       /\ responses' = Append(responses, response)
       /\ IF out.raised
          THEN Crash(out.exc, out.arg) /\ UNCHANGED <<note_ids, opt_i>>
          ELSE /\ note_ids' = Append(note_ids, out.value)
               /\ pc' = LoopPc(next)
               /\ opt_i' = next
               /\ UNCHANGED <<failure, exit_status>>

\* main, lines 222-238
AddOneLinerNote ==
    /\ pc = "add_one_liner"
    /\ LET back == IF args.subcommand
                   THEN command[1] \o <<" ">> \o command[2]
                   ELSE args.page
           hint == IF args.subcommand
                   THEN Hint("hint-subcommand-one-liner", <<command[1]>>)
                   ELSE Hint("hint-one-liner", <<>>)
           tags == ListPlus(config["tags-one-liner"], args.tags)
       IN IF tags = PyNone
          THEN /\ Crash("TypeError", JStr("can only concatenate list"))
               /\ UNCHANGED <<note_ids, requests, responses, opt_i, noted>>
          ELSE \E response \in RunResponses(Len(requests) + 1) :
                  PostAddNote(add_note(config["deck"], front, back, hint, link, tags),
                              response, 1)
    /\ UNCHANGED <<args, command, html_file, soup, prompts, front, info, call>>

\* main, lines 241-246
GetOptionInfo ==
    /\ pc = "get_option_info"
    /\ \E entered_title \in Answers, entered_description \in Answers :
        LET got == get_option_info(soup, normalize(args.option[opt_i]),
                                   entered_title, entered_description)
        IN /\ info' = [title |-> got.title, description |-> got.description]
           /\ prompts' = prompts \o got.asked
    /\ pc' = "add_option"
    /\ UNCHANGED <<args, command, html_file, soup, note_ids, requests,
                   responses, front, opt_i, failure, exit_status, call, noted>>

\* main, lines 247-266
AddOptionNote ==
    /\ pc = "add_option"
    /\ LET hint == IF args.subcommand
                   THEN Hint("hint-subcommand-option-description", command)
                   ELSE Hint("hint-option-description", <<args.page>>)
           tags == ListPlus(config["tags-option-description"], args.tags)
       IN IF tags = PyNone
          THEN /\ Crash("TypeError", JStr("can only concatenate list"))
               /\ UNCHANGED <<note_ids, requests, responses, opt_i, noted>>
          ELSE \E response \in RunResponses(Len(requests) + 1) :
                  PostAddNote(add_note(config["deck"], info.description, info.title,
                                       hint, link, tags),
                              response, opt_i + 1)
    /\ UNCHANGED <<args, command, html_file, soup, prompts, front, info, call>>

\* main, lines 268-269
GuiBrowse ==
    /\ pc = "gui_browse"
    /\ IF Len(note_ids) > 0
       THEN \E response \in RunResponses(Len(requests) + 1) :
               LET out == invoke_anki_connect(response)
               IN /\ requests' = Append(requests, gui_browse_notes(note_ids))
                  /\ responses' = Append(responses, response)
                  /\ IF out.raised
                     THEN Crash(out.exc, out.arg)
                     ELSE /\ pc' = "done"
                          /\ exit_status' = 0
                          /\ failure' = failure
       ELSE /\ pc' = "done"
            /\ exit_status' = 0
            /\ UNCHANGED <<requests, responses, failure>>
    /\ UNCHANGED <<args, command, html_file, soup, note_ids, prompts, front,
                   info, opt_i, call, noted>>

Next ==
    \/ GetArgs
    \/ CreateManHtmlFile
    \/ SplitPage
    \/ ReadHtml
    \/ GetOneLiner
    \/ AddOneLinerNote
    \/ GetOptionInfo
    \/ AddOptionNote
    \/ GuiBrowse

Spec == Init /\ [][Next]_vars

(***************************************************************************)
(* The functions on their own: get_one_liner and get_option_info on every  *)
(* document of Docs, invoke_anki_connect on every response of Responses.   *)
(***************************************************************************)
InitFn ==
    /\ \/ pc = "call_extractor" /\ soup \in Docs
       \/ pc = "call_client" /\ soup = NoDoc
    /\ Idle

CallGetOneLiner ==
    /\ pc = "call_extractor"
    /\ \E entered \in Answers :
        LET got == get_one_liner(soup, entered)
        IN /\ front' = got.value
           /\ prompts' = got.asked
    /\ call' = [NoCall EXCEPT !.fn = "get_one_liner"]
    /\ pc' = "returned"
    /\ UNCHANGED <<args, command, html_file, soup, note_ids, requests,
                   responses, info, opt_i, failure, exit_status, noted>>

CallGetOptionInfo ==
    /\ pc = "call_extractor"
    /\ \E option \in {Flag_v, Flag_all},
          entered_title \in Answers, entered_description \in Answers :
        LET got == get_option_info(soup, option, entered_title, entered_description)
        IN /\ info' = [title |-> got.title, description |-> got.description]
           /\ prompts' = got.asked
           /\ call' = [NoCall EXCEPT !.fn = "get_option_info", !.option = option]
    /\ pc' = "returned"
    /\ UNCHANGED <<args, command, html_file, soup, note_ids, requests,
                   responses, front, opt_i, failure, exit_status, noted>>

CallInvokeAnkiConnect ==
    /\ pc = "call_client"
    /\ \E response \in Responses :
        \* the request is built and posted before the response is read
        /\ requests' = <<gui_browse_notes(<<JInt(7)>>)>>
        /\ responses' = <<response>>
        /\ call' = [NoCall EXCEPT !.fn = "invoke_anki_connect",
                                  !.out = invoke_anki_connect(response)]
    /\ pc' = "returned"
    /\ UNCHANGED <<args, command, html_file, soup, note_ids,
                   prompts, front, info, opt_i, failure, exit_status, noted>>

NextFn ==
    \/ CallGetOneLiner
    \/ CallGetOptionInfo
    \/ CallInvokeAnkiConnect

SpecFn == InitFn /\ [][NextFn]_vars

(***************************************************************************)
(* The claims.                                                             *)
(***************************************************************************)
AddNotes == {k \in 1..Len(requests) : requests[k].action = "addNote"}
Browses == {k \in 1..Len(requests) : requests[k].action = "guiBrowse"}

\* C1: every addNote request sent carries a non-empty Front field and a
\* non-empty Back field, whether the value was extracted or entered.
C1_NotesHaveFrontAndBack ==
    \A k \in AddNotes :
        /\ requests[k].params.note.fields.Front # <<>>
        /\ requests[k].params.note.fields.Back # <<>>

\* C2: a response whose HTTP status is a failure (raise_for_status raises)
\* makes invoke_anki_connect fail: the run has stopped on it, and it
\* recorded no note identifier, whatever the body of the response.
C2_TransportFailureIsFatal ==
    \A k \in 1..Len(responses) :
        responses[k].transport = "http_error" =>
            /\ pc = "crashed"
            /\ k = Len(responses)
            /\ Len(note_ids) < k

\* C5: the section argument is accepted exactly when it is an integer from
\* 1 to 9: the run proceeds to the acquisition of the document for each of
\* them, and is rejected before it for every other value.
C5_SectionsOneToNine ==
    pc # "get_args" =>
        /\ args.section \in 1..9 <=> pc # "exited"
        /\ pc = "exited" =>
              /\ exit_status # 0
              /\ ~html_file /\ soup = NoDoc /\ prompts = <<>> /\ requests = <<>>

\* the tags given with -t/--tags, none when the flag is not given
ExtraTags == IF args.tags = NoTags THEN <<>> ELSE args.tags

DefaultTags(subject) ==
    IF subject = OneLiner THEN config["tags-one-liner"]
    ELSE config["tags-option-description"]

\* C8: the tags of every note are the default tags of its card kind followed
\* by the tags of -t/--tags; a run without -t creates its notes with just the
\* default tags (building the tags of a note never fails).
C8_TagsMerged ==
    /\ \A k \in AddNotes :
          requests[k].params.note.tags = DefaultTags(noted[k]) \o ExtraTags
    /\ failure.exc # "TypeError"

\* the separator of the specification: a hyphen or an em-dash with one space
\* on each side
DashAt(s, i) ==
    /\ i + 2 <= Len(s)
    /\ s[i] = " "
    /\ s[i + 1] \in {"-", "EMDASH"}
    /\ s[i + 2] = " "

FirstDash(s) == CHOOSE i \in 1..Len(s) : DashAt(s, i) /\ \A j \in 1..(i - 1) : ~DashAt(s, j)

\* text with only its first character uppercased
IsCapitalized(value, text) ==
    /\ Len(value) = Len(text)
    /\ Len(text) > 0 => value[1] = upper(text[1])
    /\ \A k \in 2..Len(text) : value[k] = text[k]

\* the text of the first paragraph of the document, None when it has none
FirstParagraphText ==
    IF \E i \in 1..Len(Descendants(soup)) : Descendants(soup)[i].tag = "p"
    THEN NodeString(find(soup, "p"))
    ELSE PyNone

\* C7: when the text of the first paragraph has a hyphen or em-dash
\* separator with one space on each side, get_one_liner returns the text after
\* the first such separator with only its first character uppercased;
\* otherwise it returns exactly what the operator entered at the prompt.
C7_OneLinerCapitalized ==
    (pc = "returned" /\ call.fn = "get_one_liner") =>
        LET text == FirstParagraphText
        IN IF text # PyNone /\ \E i \in 1..Len(text) : DashAt(text, i)
           THEN /\ prompts = <<>>
                /\ IsCapitalized(front,
                       SubSeq(text, FirstDash(text) + 3, Len(text)))
           ELSE /\ Len(prompts) = 1
                /\ prompts[1].prompt = "one-liner"
                /\ front = prompts[1].entered

\* C3: on a response whose body is a JSON object, invoke_anki_connect
\* returns the result field if and only if the object has exactly the fields
\* error and result and error is null; it fails with a malformed-response
\* error when the field count is not two or either field is missing, and
\* with the error field's value as its message when error is not null.
C3_ResultIffWellFormed ==
    (/\ pc = "returned"
     /\ call.fn = "invoke_anki_connect"
     /\ responses[1].transport # "unreachable"
     /\ responses[1].json) =>
        LET table == responses[1].table
            two == DOMAIN table = {"error", "result"}
        IN /\ ~call.out.raised <=> (two /\ table["error"] = JNull)
           /\ ~call.out.raised => call.out.value = table["result"]
           /\ ~two =>
                 /\ call.out.raised
                 /\ call.out.exc = "Exception"
                 /\ call.out.arg \in
                       {JStr("response has an unexpected number of fields"),
                        JStr("response is missing required error field"),
                        JStr("response is missing required result field")}
           /\ (two /\ table["error"] # JNull) =>
                 /\ call.out.raised
                 /\ call.out.exc = "Exception"
                 /\ call.out.arg = table["error"]

\* {"error": null, "result": 12345} has yielded 12345
C3_Witness ==
    /\ pc = "returned"
    /\ call.fn = "invoke_anki_connect"
    /\ responses[1].json
    /\ responses[1].table = [error |-> JNull, result |-> JInt(12345)]
    /\ call.out = Returned(JInt(12345))

ManNotFound == failure = [exc |-> "CalledProcessError", arg |-> JStr("man")]

\* C4: when man --path fails, the run has ended with a nonzero exit status,
\* no html file was written, nothing was extracted or prompted for, and no
\* request was sent.
C4_PageNotFound ==
    ManNotFound =>
        /\ pc = "crashed"
        /\ exit_status > 0
        /\ ~html_file
        /\ soup = NoDoc /\ front = <<>> /\ info = NoInfo
        /\ prompts = <<>>
        /\ requests = <<>> /\ note_ids = <<>>

\* man --path has failed in a run that asked for notes
C4_Witness ==
    /\ ManNotFound
    /\ args.description
    /\ args.option # NoOptions
    /\ args.tags # NoTags

\* int(digits), -1 for a text that is no decimal number
RECURSIVE ParseInt(_)
ParseInt(digits) ==
    IF digits = <<>> \/ \E k \in 1..Len(digits) : \A d \in 0..9 : Digits[d + 1] # digits[k]
    THEN -1
    ELSE IF Len(digits) = 1
    THEN CHOOSE d \in 0..9 : Digits[d + 1] = digits[1]
    ELSE 10 * ParseInt(SubSeq(digits, 1, Len(digits) - 1))
         + ParseInt(<<digits[Len(digits)]>>)

\* s.split(",")
RECURSIVE SplitCommas(_)
SplitCommas(s) ==
    IF \E i \in 1..Len(s) : s[i] = ","
    THEN LET i == CHOOSE i \in 1..Len(s) :
                      s[i] = "," /\ \A j \in 1..(i - 1) : s[j] # ","
         IN <<SubSeq(s, 1, i - 1)>> \o SplitCommas(SubSeq(s, i + 1, Len(s)))
    ELSE <<s>>

\* the identifiers a query nid:<id>,<id>,... selects
QueryIds(query) ==
    LET ids == SplitCommas(SubSeq(query, 5, Len(query)))
    IN [k \in 1..Len(ids) |-> ParseInt(ids[k])]

\* what the command line asks notes for, in order
ExpectedNotes ==
    (IF args.description THEN <<OneLiner>> ELSE <<>>)
    \o (IF args.option = NoOptions THEN <<>>
        ELSE [k \in 1..Len(args.option) |->
                 IF Len(args.option[k]) = 1 THEN <<"-">> \o args.option[k]
                 ELSE <<"-", "-">> \o args.option[k]])

\* C6: guiBrowse is sent at most once, as the last request and after every
\* note asked for was created (the one-liner first, then the options in
\* command-line order); its query is nid: and the identifiers the addNote
\* calls returned, in order; a run that ends normally has sent it if and only
\* if it created a note.
C6_BrowseOnceAfterAllNotes ==
    /\ Cardinality(Browses) <= 1
    /\ \A k \in Browses :
          /\ k = Len(requests)
          /\ k > 1
          /\ \A j \in 1..(k - 1) : requests[j].action = "addNote"
          /\ SubSeq(noted, 1, k - 1) = ExpectedNotes
          /\ SubSeq(requests[k].params.query, 1, 4) = <<"n", "i", "d", ":">>
          /\ QueryIds(requests[k].params.query)
                = [j \in 1..(k - 1) |-> responses[j].table["result"].n]
    /\ pc = "done" =>
          /\ Len(note_ids) = Len(ExpectedNotes)
          /\ Browses # {} <=> Len(note_ids) > 0

\* a run with three notes has ended after browsing nid:7,12,17
C6_Witness ==
    /\ pc = "done"
    /\ Len(note_ids) = 3
    /\ Len(requests) = 4
    /\ requests[4].action = "guiBrowse"
    /\ requests[4].params.query = <<"n", "i", "d", ":", "7", ",", "1", "2", ",", "1", "7">>

\* the run was ended by a malformed response or by a response with an error
StoreFailure == failure.exc = "Exception"

C9_Stopped ==
    StoreFailure =>
        LET k == Len(requests)
            table == responses[k].table
        IN /\ pc = "crashed"
           /\ Len(responses) = k
           /\ (DOMAIN table # {"error", "result"} \/ table["error"] # JNull)
           /\ Len(note_ids) = k - 1
           /\ \A j \in 1..(k - 1) :
                 /\ requests[j].action = "addNote"
                 /\ note_ids[j] = responses[j].table["result"]
           /\ \A j \in 1..k : requests[j].action \in {"addNote", "guiBrowse"}

C9_NoMore ==
    StoreFailure =>
        /\ requests' = requests
        /\ prompts' = prompts
        /\ note_ids' = note_ids
        /\ pc' = pc

\* C9: once the k-th call to the note store has failed on a malformed response
\* or on an error field that is not null, the run has stopped: the k - 1
\* identifiers of the earlier addNote calls stay recorded, and no request
\* (addNote, guiBrowse, or one that deletes) and no prompt follows.
C9_StopsAfterStoreFailure == []C9_Stopped /\ [][C9_NoMore]_vars

\* the third addNote of a run has failed after two notes were created
C9_Witness ==
    /\ StoreFailure
    /\ Len(requests) = 3
    /\ requests[3].action = "addNote"
    /\ Len(note_ids) = 2

\* the nodes of a list that are strong elements with the text option
StrongOf(nodes, option) ==
    {k \in 1..Len(nodes) : nodes[k].tag = "strong" /\ NodeString(nodes[k]) = option}

\* the elements of the document, numbered in document order
Elements == Places(soup, NoPlace, 1)

\* the terms, at any depth, with such a strong element among their children
TermsByChild(option) ==
    {i \in 1..Len(Elements) :
        LET n == NodeAt(soup, Elements[i])
        IN n.tag = "dt" /\ StrongOf(n.contents, option) # {}}

\* the terms, at any depth, with such a strong element anywhere below them
TermsByDescendant(option) ==
    {i \in 1..Len(Elements) :
        LET n == NodeAt(soup, Elements[i])
        IN n.tag = "dt" /\ StrongOf(Descendants(n.contents), option) # {}}

Min(S) == CHOOSE x \in S : \A y \in S : x <= y

\* the dd elements that follow the i-th element under the same parent
LaterDds(i) ==
    {j \in (i + 1)..Len(Elements) :
        /\ Len(Elements[j]) = Len(Elements[i])
        /\ \A k \in 1..(Len(Elements[i]) - 1) : Elements[j][k] = Elements[i][k]
        /\ NodeAt(soup, Elements[j]).tag = "dd"}

\* what get_option_info gave, when terms are the terms that match option
OptionInfoOf(terms, option) ==
    IF terms = {}
    THEN prompts = <<Asked("option title", option, info.title),
                     Asked("option description", option, info.description)>>
    ELSE LET i == Min(terms)
             title == ContentsMarkup(NodeAt(soup, Elements[i]))
             dds == LaterDds(i)
             ps == IF dds = {} THEN <<>>
                   ELSE find_all(NodeAt(soup, Elements[Min(dds)]).contents, "p")
             text == IF ps = <<>> THEN <<>> ELSE ContentsMarkup(ps[1])
         IN /\ prompts =
                  (IF title = <<>>
                   THEN <<Asked("option title", option, info.title)>>
                   ELSE <<>>)
                  \o (IF text = <<>>
                      THEN <<Asked("option description", option, info.description)>>
                      ELSE <<>>)
            /\ title # <<>> => info.title = title
            /\ text # <<>> => IsCapitalized(info.description, text)

\* C10, as claimed: get_option_info takes the first term with a strong child
\* whose text is the flag: its children's markup is the title, the first
\* paragraph of its next dd sibling, first letter capitalized, the
\* description, each prompted for when empty or absent; with no such term,
\* it prompts for the title, then for the description.
C10_TermByStrongChild ==
    (pc = "returned" /\ call.fn = "get_option_info") =>
        OptionInfoOf(TermsByChild(call.option), call.option)

\* C10, amended: the same with the strong element anywhere below the term,
\* not only among its children.
C10_TermByStrongDescendant ==
    (pc = "returned" /\ call.fn = "get_option_info") =>
        OptionInfoOf(TermsByDescendant(call.option), call.option)

\* the term for --all, whose strong element lies inside an em, was taken, and
\* its description is the paragraph of the definition list nested in its dd
C10_Witness ==
    /\ pc = "returned"
    /\ call.fn = "get_option_info"
    /\ call.option = Flag_all
    /\ soup = <<Dt_em_all, Dd_nested>>
    /\ info.title = <<"<", "e", "m", ">">> \o Markup(Strong_all)
                       \o <<"<", "/", "e", "m", ">", " ", "n">>
    /\ info.description = <<"S", "h", "o", "w", " ", "a", "l", "l">>
    /\ prompts = <<>>

====
